---- MODULE Spec2Model ----
(***************************************************************************)
(* Model of webWatcher.py: the Reconciler (monitor_websites with           *)
(* check_target_file_modification and load_target_urls) and the per-target *)
(* Target Monitor coroutine (monitor_website with get_page_hash and        *)
(* send_email), running on one asyncio event loop.                         *)
(*                                                                         *)
(* Scheduling: the event loop is single threaded and cooperative.  The     *)
(* main coroutine suspends only in asyncio.sleep(300) of                   *)
(* check_target_file_modification, so monitor tasks take steps only while  *)
(* pc = "sleeping".  A monitor suspends only inside get_page_hash (the     *)
(* HTTP request) and in asyncio.sleep(check_interval).  The target file is *)
(* written by other processes, so it may change between any two steps of   *)
(* the program, including between os.path.getmtime and the open() that     *)
(* follows it.                                                             *)
(*                                                                         *)
(* Cancellation: Task.cancel() makes the task's pending await raise        *)
(* CancelledError.  CancelledError derives from BaseException (Python 3.8  *)
(* and later), so "except Exception" in get_page_hash does not catch it    *)
(* and a cancelled task runs no further statement of monitor_website.      *)
(***************************************************************************)
EXTENDS Integers, Sequences, FiniteSets, TLC

\* ---------------------------------------------------------------- bounds
\* Spec: entries per target file, writes to the file, tasks created.
MaxTargets == 2
MaxEdits == 2
MaxTasks == 3
\* SpecCycle: the same program in a smaller environment, for the properties
\* of a single monitor cycle.
CycleTargets == 1
CycleEdits == 2
CycleTasks == 2

\* ------------------------------------------------------------- universes
URLs == {"a", "b"}
Selectors == {"x"}
Texts == {"A", "B"}

None == "None"
Unbound == "unbound"
NoKey == "KeyError"

\* Entries of the target file.  PlainTargets have no "xpath" key,
\* SelectorTargets are the entries of one URL with and without a selector.
PlainTargets == [url : URLs, xpath : {None}]
SelectorTargets == [url : {"a"}, xpath : Selectors \cup {None}]
BadEntry == [url |-> NoKey, xpath |-> None]
TargetLists(T, maxTargets) == UNION {[1..n -> T] : n \in 0..maxTargets}

\* What the target file can hold: nothing ("missing": no such file),
\* text that json.load rejects or a file open() cannot read ("malformed"),
\* JSON whose entries are not objects with a "url" key ("badshape"),
\* or a JSON array of targets ("list", possibly empty, possibly with one URL
\* in several entries).
FileContents(T, maxTargets) ==
    {[kind |-> k, data |-> <<>>] : k \in {"missing", "malformed"}}
    \cup {[kind |-> "badshape", data |-> <<BadEntry>>]}
    \cup {[kind |-> "list", data |-> l] : l \in TargetLists(T, maxTargets)}
Responses == [ok : BOOLEAN, all : Texts, sel : Texts]

VARIABLES
    file,                    \* content of the target file (other processes write it)
    mtime,                   \* os.path.getmtime(target_file)
    pc,                      \* position of the main coroutine monitor_websites
    last_modification_time,  \* local of monitor_websites
    last_hashes,             \* dict url -> hash or None
    tasks,                   \* dict url -> task, in insertion order
    pool,                    \* every task created so far, by creation order
    cycle,                   \* the monitor cycle run by the latest step, if any:
                             \* its task and the current_hash it bound
    mail,                    \* messages handed to send_email by the latest step
    out                      \* lines printed by the latest step

vars == <<file, mtime, pc, last_modification_time, last_hashes, tasks, pool,
          cycle, mail, out>>

\* ------------------------------------------------------- dict operations
EmptyDict == [k \in {} |-> None]
Get(d, k) == IF k \in DOMAIN d THEN d[k] ELSE None
Put(d, k, v) == [x \in (DOMAIN d) \cup {k} |-> IF x = k THEN v ELSE d[x]]
Del(d, k) == [x \in (DOMAIN d) \ {k} |-> d[x]]

\* tasks is an insertion-ordered dict: a sequence of [url, task] entries
Keys(tk) == [i \in 1..Len(tk) |-> tk[i].url]
KeySet(tk) == {tk[i].url : i \in 1..Len(tk)}
TaskOf(tk, u) == (CHOOSE i \in 1..Len(tk) : tk[i].url = u)
TaskGet(tk, u) == tk[TaskOf(tk, u)].task
TaskPut(tk, u, t) ==
    IF u \in KeySet(tk)
    THEN [tk EXCEPT ![TaskOf(tk, u)].task = t]
    ELSE Append(tk, [url |-> u, task |-> t])
TaskDel(tk, u) == SelectSeq(tk, LAMBDA e : e.url # u)

\* ------------------------------------------------------ pure functions
SHA256(text) == "sha256:" \o text

get_page_hash(resp, xpath) ==
    IF ~resp.ok THEN None
    ELSE SHA256(IF xpath # None THEN resp.sel ELSE resp.all)

load_target_urls(f) ==
    IF f.kind \in {"list", "badshape"} THEN f.data ELSE <<>>

send_email(url, delivered) ==
    [mail |-> <<[subject |-> url, delivered |-> delivered]>>,
     out |-> <<IF delivered THEN <<"mail_ok", url>> ELSE <<"mail_fail", url>>>>]

\* ------------------------------------------------------- Target Monitor
\* A task is suspended at "new" (created, not yet run), "fetching" (line 73)
\* or "sleeping" (line 91).  The local current_hash is bound and read within
\* one step and never read after a suspension, so it is not task state.
\* hist is a history field: "none" (no fetch completed yet), "fail_only"
\* (every completed fetch failed), "ok" (some fetch succeeded).
create_task(target) ==
    [url |-> target.url, xpath |-> target.xpath, pc |-> "new", hist |-> "none"]

NoCycle == [task |-> 0, current_hash |-> Unbound, before |-> "none"]

Live(t) == t.pc # "cancelled"

\* Task.cancel(): the coroutine is unwound by CancelledError, its locals die
cancel(t) ==
    [url |-> t.url, xpath |-> None, pc |-> "cancelled", hist |-> "none"]

\* variants of the comparison with one test changed, used to show that the
\* properties below distinguish the code from these slips
Compare_noBaseline(stored, current_hash) ==
    IF current_hash = None THEN "skip"
    ELSE IF current_hash # stored THEN "changed"
    ELSE "same"

Compare_alwaysChanged(stored, current_hash) ==
    IF current_hash = None THEN "skip"
    ELSE IF stored = None THEN "first"
    ELSE "changed"

Compare_noFailCheck(stored, current_hash) ==
    IF stored = None THEN "first"
    ELSE IF current_hash # stored THEN "changed"
    ELSE "same"

\* lines 75-89: which branch of the if/elif chain runs
Compare(stored, current_hash) ==
    IF current_hash = None THEN "skip"
    ELSE IF stored = None THEN "first"
    ELSE IF current_hash # stored THEN "changed"
    ELSE "same"

\* variant that notifies on a change but does not overwrite the fingerprint
monitor_cycle_noStore(lh, url, current_hash, delivered) ==
    LET branch == Compare(Get(lh, url), current_hash)
    IN CASE branch = "skip" ->
              [last_hashes |-> lh, mail |-> <<>>, out |-> <<<<"skip", url>>>>]
         [] branch = "first" ->
              [last_hashes |-> Put(lh, url, current_hash), mail |-> <<>>,
               out |-> <<<<"first", url>>>>]
         [] branch = "changed" ->
              LET sent == send_email(url, delivered)
              IN [last_hashes |-> lh,
                  mail |-> sent.mail,
                  out |-> <<<<"changed", url>>>> \o sent.out]
         [] OTHER ->
              [last_hashes |-> lh, mail |-> <<>>, out |-> <<<<"same", url>>>>]

\* variant in which a failed send_email keeps the old fingerprint
monitor_cycle_storeIfDelivered(lh, url, current_hash, delivered) ==
    LET branch == Compare(Get(lh, url), current_hash)
    IN CASE branch = "skip" ->
              [last_hashes |-> lh, mail |-> <<>>, out |-> <<<<"skip", url>>>>]
         [] branch = "first" ->
              [last_hashes |-> Put(lh, url, current_hash), mail |-> <<>>,
               out |-> <<<<"first", url>>>>]
         [] branch = "changed" ->
              LET sent == send_email(url, delivered)
              IN [last_hashes |-> IF delivered THEN Put(lh, url, current_hash)
                                  ELSE lh,
                  mail |-> sent.mail,
                  out |-> <<<<"changed", url>>>> \o sent.out]
         [] OTHER ->
              [last_hashes |-> lh, mail |-> <<>>, out |-> <<<<"same", url>>>>]

\* lines 75-89: the effect of one cycle on last_hashes, the mail sent and
\* the lines printed
monitor_cycle(lh, url, current_hash, delivered) ==
    LET branch == Compare(Get(lh, url), current_hash)
    IN CASE branch = "skip" ->
              [last_hashes |-> lh, mail |-> <<>>, out |-> <<<<"skip", url>>>>]
         [] branch = "first" ->
              [last_hashes |-> Put(lh, url, current_hash), mail |-> <<>>,
               out |-> <<<<"first", url>>>>]
         [] branch = "changed" ->
              LET sent == send_email(url, delivered)
              IN [last_hashes |-> Put(lh, url, current_hash),
                  mail |-> sent.mail,
                  out |-> <<<<"changed", url>>>> \o sent.out]
         [] OTHER ->
              [last_hashes |-> lh, mail |-> <<>>, out |-> <<<<"same", url>>>>]

\* variant without the "while True": the body runs once
BeginFetch_once(t) ==
    /\ pc = "sleeping"
    /\ pool[t].pc = "new"
    /\ pool' = [pool EXCEPT ![t].pc = "fetching"]
    /\ mail' = <<>>
    /\ cycle' = NoCycle
    /\ out' = <<>>
    /\ UNCHANGED <<file, mtime, pc, last_modification_time, last_hashes, tasks>>

\* lines 71-73 (and the return from line 91): the task is resumed and sends
\* its next request
BeginFetch(t) ==
    /\ pc = "sleeping"
    /\ pool[t].pc \in {"new", "sleeping"}
    /\ pool' = [pool EXCEPT ![t].pc = "fetching"]
    /\ mail' = <<>>
    /\ cycle' = NoCycle
    /\ out' = <<>>
    /\ UNCHANGED <<file, mtime, pc, last_modification_time, last_hashes, tasks>>

FetchDone(t, resp, delivered) ==
    /\ pc = "sleeping"
    /\ pool[t].pc = "fetching"
    /\ LET current_hash == get_page_hash(resp, pool[t].xpath)
           r == monitor_cycle(last_hashes, pool[t].url, current_hash, delivered)
       IN /\ pool' = [pool EXCEPT ![t].pc = "sleeping",
                                  ![t].hist = IF current_hash # None THEN "ok"
                                              ELSE IF @ = "ok" THEN "ok"
                                              ELSE "fail_only"]
          /\ cycle' = [task |-> t, current_hash |-> current_hash,
                       before |-> pool[t].hist]
          /\ last_hashes' = r.last_hashes
          /\ mail' = r.mail
          /\ out' = r.out
    /\ UNCHANGED <<file, mtime, pc, last_modification_time, tasks>>

\* ----------------------------------------------------------- Reconciler
Teardown(pl) == [i \in 1..Len(pl) |-> cancel(pl[i])]

RECURSIVE StartAll(_, _)
StartAll(targets, st) ==
    IF targets = <<>> THEN st
    ELSE LET target == Head(targets)
             pl == Append(st.pool, create_task(target))
         IN StartAll(Tail(targets),
                     [tasks |-> TaskPut(st.tasks, target.url, Len(pl)),
                      pool |-> pl,
                      out |-> Append(st.out, <<"start", target.url>>)])

InitialHashes(targets) ==
    [u \in {targets[i].url : i \in 1..Len(targets)} |-> None]

HasBadEntry(targets) == \E i \in 1..Len(targets) : targets[i].url = NoKey

RECURSIVE RemoveLoop(_, _, _)
RemoveLoop(keys, new_targets, st) ==
    IF keys = <<>> \/ st.exc THEN st
    ELSE LET target == Head(keys)
         IN IF HasBadEntry(new_targets)
            THEN [st EXCEPT !.exc = TRUE]
            ELSE IF target \in {new_targets[i].url : i \in 1..Len(new_targets)}
            THEN RemoveLoop(Tail(keys), new_targets, st)
            ELSE LET t == TaskGet(st.tasks, target)
                     cancelled == [st EXCEPT !.pool[t] = cancel(@),
                                             !.tasks = TaskDel(st.tasks, target)]
                 IN IF target \notin DOMAIN st.last_hashes
                    THEN [cancelled EXCEPT !.exc = TRUE]
                    ELSE RemoveLoop(Tail(keys), new_targets,
                           [cancelled EXCEPT
                              !.last_hashes = Del(st.last_hashes, target),
                              !.out = Append(st.out, <<"stop", target>>)])

RECURSIVE AddLoop(_, _)
AddLoop(new_targets, st) ==
    IF new_targets = <<>> \/ st.exc THEN st
    ELSE LET target == Head(new_targets)
         IN IF target.url = NoKey
            THEN [st EXCEPT !.exc = TRUE]
            ELSE IF target.url \in KeySet(st.tasks)
            THEN AddLoop(Tail(new_targets), st)
            ELSE LET pl == Append(st.pool, create_task(target))
                 IN AddLoop(Tail(new_targets),
                       [st EXCEPT
                          !.pool = pl,
                          !.tasks = TaskPut(st.tasks, target.url, Len(pl)),
                          !.out = Append(st.out, <<"start", target.url>>)])

reconcile(new_targets, tk, pl, lh) ==
    AddLoop(new_targets,
            RemoveLoop(Keys(tk), new_targets,
                       [tasks |-> tk, pool |-> pl, last_hashes |-> lh,
                        out |-> <<>>, exc |-> FALSE]))

StartupMtime ==
    /\ pc = "init"
    /\ IF file.kind = "missing"
       THEN /\ pc' = "crashed"
            /\ UNCHANGED last_modification_time
       ELSE /\ pc' = "load"
            /\ last_modification_time' = mtime
    /\ mail' = <<>>
    /\ cycle' = NoCycle
    /\ out' = <<>>
    /\ UNCHANGED <<file, mtime, last_hashes, tasks, pool>>

StartupLoad ==
    /\ pc = "load"
    /\ LET targets == load_target_urls(file)
       IN IF targets = <<>>
          THEN /\ pc' = "returned"
               /\ out' = <<<<"no_targets", None>>>>
               /\ UNCHANGED <<last_hashes, tasks, pool>>
          ELSE IF HasBadEntry(targets)
          THEN /\ pc' = "crashed"
               /\ out' = <<>>
               /\ UNCHANGED <<last_hashes, tasks, pool>>
          ELSE LET st == StartAll(targets, [tasks |-> <<>>, pool |-> <<>>,
                                            out |-> <<>>])
               IN /\ pc' = "check"
                  /\ last_hashes' = InitialHashes(targets)
                  /\ tasks' = st.tasks
                  /\ pool' = st.pool
                  /\ out' = st.out
    /\ mail' = <<>>
    /\ cycle' = NoCycle
    /\ UNCHANGED <<file, mtime, last_modification_time>>

Check ==
    /\ pc = "check"
    /\ IF file.kind = "missing"
       THEN /\ pc' = "crashed"
            /\ pool' = Teardown(pool)
            /\ out' = <<>>
            /\ UNCHANGED last_modification_time
       ELSE IF mtime # last_modification_time
       THEN /\ pc' = "reload"
            /\ last_modification_time' = mtime
            /\ out' = <<<<"modified", None>>>>
            /\ UNCHANGED pool
       ELSE /\ pc' = "sleeping"
            /\ out' = <<>>
            /\ UNCHANGED <<last_modification_time, pool>>
    /\ mail' = <<>>
    /\ cycle' = NoCycle
    /\ UNCHANGED <<file, mtime, last_hashes, tasks>>

WakeMain ==
    /\ pc = "sleeping"
    /\ pc' = "check"
    /\ mail' = <<>>
    /\ cycle' = NoCycle
    /\ out' = <<>>
    /\ UNCHANGED <<file, mtime, last_modification_time, last_hashes, tasks, pool>>

Reconcile(maxTasks) ==
    /\ pc = "reload"
    /\ LET st == reconcile(load_target_urls(file), tasks, pool, last_hashes)
       IN /\ Len(st.pool) <= maxTasks
          /\ tasks' = st.tasks
          /\ last_hashes' = st.last_hashes
          /\ out' = st.out
          /\ IF st.exc
             THEN /\ pc' = "crashed"
                  /\ pool' = Teardown(st.pool)
             ELSE /\ pc' = "check"
                  /\ pool' = st.pool
    /\ mail' = <<>>
    /\ cycle' = NoCycle
    /\ UNCHANGED <<file, mtime, last_modification_time>>

\* ------------------------------------------------- environment: the file
\* The program observes the file only at os.path.getmtime (lines 96, 105) and
\* at open() (lines 59, via 106 and 125).  A write made while the main
\* coroutine sleeps is first observable at the next getmtime, and it commutes
\* with every monitor step, so it is taken when the main coroutine stands
\* before one of its reads.  Init covers every content at the first read.
EditFile(c, maxEdits) ==
    /\ pc \in {"load", "check", "reload"}
    /\ mtime < maxEdits
    /\ c # file
    /\ file' = c
    /\ mtime' = mtime + 1
    /\ mail' = <<>>
    /\ cycle' = NoCycle
    /\ out' = <<>>
    /\ UNCHANGED <<pc, last_modification_time, last_hashes, tasks, pool>>

\* ------------------------------------------------------- specification
InitOver(T, maxTargets) ==
    /\ file \in FileContents(T, maxTargets)
    /\ mtime = 0
    /\ pc = "init"
    /\ last_modification_time = 0
    /\ last_hashes = EmptyDict
    /\ tasks = <<>>
    /\ pool = <<>>
    /\ mail = <<>>
    /\ cycle = NoCycle
    /\ out = <<>>

NextOver(T, maxTargets, maxEdits, maxTasks) ==
    \/ StartupMtime
    \/ StartupLoad
    \/ Check
    \/ WakeMain
    \/ Reconcile(maxTasks)
    \/ \E c \in FileContents(T, maxTargets) : EditFile(c, maxEdits)
    \/ \E t \in 1..Len(pool) : BeginFetch(t)
    \/ \E t \in 1..Len(pool), resp \in Responses, delivered \in BOOLEAN :
          FetchDone(t, resp, delivered)

Init == InitOver(PlainTargets, MaxTargets)
Next == NextOver(PlainTargets, MaxTargets, MaxEdits, MaxTasks)
Spec == Init /\ [][Next]_vars

InitCycle == InitOver(PlainTargets, CycleTargets)
NextCycle == NextOver(PlainTargets, CycleTargets, CycleEdits, CycleTasks)
SpecCycle == InitCycle /\ [][NextCycle]_vars

\* The same program on target files whose entries carry an "xpath" key.
InitSelector == InitOver(SelectorTargets, CycleTargets)
NextSelector == NextOver(SelectorTargets, CycleTargets, CycleEdits, CycleTasks)
SpecSelector == InitSelector /\ [][NextSelector]_vars

\* ------------------------------------------ the notification call in time
\* send_email (lines 42-54) is a plain function, called at lines 82-86 with
\* no await: smtplib connects, logs in and sends on the event loop's own
\* thread.  From the call until its return the loop resumes no coroutine, so
\* the states inside the call are seen by no other step, which is why
\* FetchDone may take lines 73-91 as one step.  SpecNotify is the same program
\* with the change cycle cut at the call: FetchReturn runs lines 73-81 and
\* enters send_email ("notifying"), NotifyDone returns from it and runs
\* lines 87-91.

\* variant in which the notification is awaited (run off the loop's thread)
Blocked_awaited == FALSE

\* the thread is inside send_email
Blocked == \E t \in 1..Len(pool) : pool[t].pc = "notifying"

\* a step the event loop takes: resuming a coroutine needs the thread
Loop(A) == ~Blocked /\ A

FetchReturn(t, resp) ==
    /\ pc = "sleeping"
    /\ pool[t].pc = "fetching"
    /\ LET current_hash == get_page_hash(resp, pool[t].xpath)
       IN IF Compare(Get(last_hashes, pool[t].url), current_hash) = "changed"
          THEN /\ pool' = [pool EXCEPT ![t].pc = "notifying", ![t].hist = "ok"]
               /\ cycle' = [task |-> t, current_hash |-> current_hash,
                            before |-> pool[t].hist]
               /\ mail' = <<>>
               /\ out' = <<<<"changed", pool[t].url>>>>
               /\ UNCHANGED <<file, mtime, pc, last_modification_time,
                              last_hashes, tasks>>
          ELSE FetchDone(t, resp, FALSE)

NotifyDone(t, delivered) ==
    /\ pool[t].pc = "notifying"
    /\ cycle.task = t
    /\ LET r == monitor_cycle(last_hashes, pool[t].url, cycle.current_hash,
                              delivered)
       IN /\ last_hashes' = r.last_hashes
          /\ mail' = r.mail
          /\ out' = Tail(r.out)
    /\ pool' = [pool EXCEPT ![t].pc = "sleeping"]
    /\ UNCHANGED <<file, mtime, pc, last_modification_time, tasks, cycle>>

InitNotify == InitOver(PlainTargets, CycleTargets)
NextNotify ==
    \/ Loop(StartupMtime)
    \/ Loop(StartupLoad)
    \/ Loop(Check)
    \/ Loop(WakeMain)
    \/ Loop(Reconcile(CycleTasks))
    \/ \E c \in FileContents(PlainTargets, CycleTargets) : EditFile(c, CycleEdits)
    \/ \E t \in 1..Len(pool) : Loop(BeginFetch(t))
    \/ \E t \in 1..Len(pool), resp \in Responses : Loop(FetchReturn(t, resp))
    \/ \E t \in 1..Len(pool), delivered \in BOOLEAN : NotifyDone(t, delivered)
SpecNotify == InitNotify /\ [][NextNotify]_vars

\* The event loop resumes a coroutine whose sleep has expired, and a running
\* coroutine goes on to its next suspension: every step of the main
\* coroutine, once enabled, is eventually taken.  Nothing is assumed about
\* the HTTP servers or about the processes that write the file.
\* Startup creates at most CycleTargets tasks and so does each pass, and a
\* pass follows a write, so FairTasks never stops a pass.
FairTasks == CycleTargets * (CycleEdits + 1)
NextFair == NextOver(PlainTargets, CycleTargets, CycleEdits, FairTasks)
SpecFair ==
    /\ InitCycle
    /\ [][NextFair]_vars
    /\ WF_vars(StartupMtime)
    /\ WF_vars(StartupLoad)
    /\ WF_vars(WakeMain)
    /\ WF_vars(Check)
    /\ WF_vars(Reconcile(FairTasks))

TypeOK ==
    /\ file.kind \in {"missing", "malformed", "badshape", "list"}
    /\ mtime \in Nat
    /\ last_modification_time \in 0..mtime
    /\ pc \in {"init", "load", "check", "sleeping", "reload", "returned", "crashed"}
    /\ DOMAIN last_hashes \subseteq URLs
    /\ \A u \in DOMAIN last_hashes : last_hashes[u] \in {None} \cup {SHA256(x) : x \in Texts}
    /\ \A i \in 1..Len(tasks) : tasks[i].task \in 1..Len(pool)
    /\ Len(mail) <= 1

\* ===================================================== claims C1 .. C10

\* Steps as seen in a pair of states: a monitor cycle of task t (its fetch
\* completed and it went to sleep), a reconciliation pass (lines 125-138).
CycleStep(t) == pool[t].pc = "fetching" /\ pool'[t].pc = "sleeping"
PassStep == pc = "reload" /\ pc' # "reload"

Hashes == {SHA256(x) : x \in Texts}
LiveTasks(u) == {t \in 1..Len(pool) : pool[t].url = u /\ Live(pool[t])}
UrlsOf(targets) == {targets[i].url : i \in 1..Len(targets)}

\* C1: in every reachable state at most one live (spawned, not cancelled)
\* Target Monitor task exists per URL, whatever list the target file holds,
\* a list naming one URL in several entries included.
C1_AtMostOneLiveTaskPerUrl ==
    \A u \in URLs : Cardinality(LiveTasks(u)) <= 1

\* C2: a cycle whose fetch succeeds with a fingerprint different from the
\* stored (set) fingerprint issues exactly one notification for that URL and
\* leaves the new fingerprint stored; every other cycle issues none.
C2_ChangeNotifiesOnceAndStores ==
    [][\A t \in 1..Len(pool) : CycleStep(t) =>
          LET u == pool[t].url
              stored == Get(last_hashes, u)
              h == cycle'.current_hash
          IN /\ cycle'.task = t
             /\ IF h \in Hashes /\ stored \in Hashes /\ h # stored
                THEN /\ Len(mail') = 1
                     /\ mail'[1].subject = u
                     /\ u \in DOMAIN last_hashes'
                     /\ last_hashes'[u] = h
                ELSE mail' = <<>>]_vars

C2_Witness ==
    /\ cycle.task # 0
    /\ cycle.current_hash \in Hashes
    /\ out # <<>>
    /\ out[1] = <<"changed", pool[cycle.task].url>>
    /\ Len(mail) = 1
    /\ mail[1].subject = pool[cycle.task].url
    /\ last_hashes[pool[cycle.task].url] = cycle.current_hash

\* C3: a successful fetch that finds the stored fingerprint unset stores the
\* fetched fingerprint and issues no notification, whatever the content and
\* whether or not failed fetches came before it.
C3_FirstFetchIsBaseline ==
    [][\A t \in 1..Len(pool) : CycleStep(t) =>
          LET u == pool[t].url
              h == cycle'.current_hash
          IN (h \in Hashes /\ Get(last_hashes, u) = None) =>
                /\ mail' = <<>>
                /\ u \in DOMAIN last_hashes'
                /\ last_hashes'[u] = h
                /\ \A v \in URLs \ {u} : Get(last_hashes', v) = Get(last_hashes, v)]_vars

\* a baseline recorded by a task whose earlier fetches all failed
C3_Witness ==
    /\ cycle.task # 0
    /\ cycle.before = "fail_only"
    /\ cycle.current_hash \in Hashes
    /\ out = <<<<"first", pool[cycle.task].url>>>>
    /\ mail = <<>>
    /\ last_hashes[pool[cycle.task].url] = cycle.current_hash

\* C4: a cycle whose fetch succeeds with a fingerprint equal to the stored
\* one issues no notification and leaves the fingerprint map unchanged.
C4_SameFingerprintNoAction ==
    [][\A t \in 1..Len(pool) : CycleStep(t) =>
          LET h == cycle'.current_hash
          IN (h \in Hashes /\ Get(last_hashes, pool[t].url) = h) =>
                /\ mail' = <<>>
                /\ last_hashes' = last_hashes]_vars

C4_Witness ==
    /\ cycle.task # 0
    /\ cycle.current_hash \in Hashes
    /\ out = <<<<"same", pool[cycle.task].url>>>>
    /\ mail = <<>>
    /\ last_hashes[pool[cycle.task].url] = cycle.current_hash

\* C5: a cycle whose fetch fails (get_page_hash returns None) leaves the
\* fingerprint map exactly as it was (unset stays unset, a set value is kept),
\* issues no notification, and the monitor sleeps and starts its next cycle:
\* a sleeping monitor can always begin its next fetch when the loop runs it.
C5_FailedFetchSkips ==
    /\ [][\A t \in 1..Len(pool) : CycleStep(t) =>
             (cycle'.current_hash = None =>
                 /\ last_hashes' = last_hashes
                 /\ mail' = <<>>
                 /\ pool'[t].pc = "sleeping"
                 /\ pool'[t].url = pool[t].url
                 /\ pool'[t].xpath = pool[t].xpath)]_vars
    /\ [](\A t \in 1..Len(pool) :
             (pc = "sleeping" /\ pool[t].pc = "sleeping") => ENABLED BeginFetch(t))

\* a monitor whose fetches have all failed is fetching again
C5_Witness ==
    \E t \in 1..Len(pool) :
        /\ pool[t].pc = "fetching"
        /\ pool[t].hist = "fail_only"
        /\ Get(last_hashes, pool[t].url) = None

BadSource(f) ==
    \/ f.kind \in {"missing", "malformed", "badshape"}
    \/ f.kind = "list" /\ f.data = <<>>

\* C6: a reconciliation pass cancels the task of every running URL that is
\* not in the newly read desired set, leaves no entry for it in the task map
\* or in the fingerprint map, and completes normally, whatever the state of
\* the removed target's monitor.
C6_RemovedTargetCancelledAndDiscarded ==
    [][(PassStep /\ file.kind # "badshape") =>
          \A u \in KeySet(tasks) \ UrlsOf(load_target_urls(file)) :
              /\ pool'[TaskGet(tasks, u)].pc = "cancelled"
              /\ u \notin KeySet(tasks')
              /\ u \notin DOMAIN last_hashes'
              /\ pc' = "check"]_vars

\* C7: a URL that is running and is in the newly read desired set keeps its
\* task and its stored fingerprint across the pass: it is not cancelled,
\* restarted or re-baselined, and no notification is sent.
C7_KeptTargetUndisturbed ==
    [][(PassStep /\ file.kind # "badshape") =>
          \A u \in KeySet(tasks) \cap UrlsOf(load_target_urls(file)) :
              /\ u \in KeySet(tasks')
              /\ TaskGet(tasks', u) = TaskGet(tasks, u)
              /\ pool'[TaskGet(tasks, u)] = pool[TaskGet(tasks, u)]
              /\ (u \in DOMAIN last_hashes') = (u \in DOMAIN last_hashes)
              /\ Get(last_hashes', u) = Get(last_hashes, u)
              /\ mail' = <<>>]_vars

\* C8: when the re-read of the target file fails (missing, unreadable or
\* malformed file) the pass changes nothing: no task is cancelled or started
\* and no stored fingerprint is discarded.
C8_ReadFailureIsNoChange ==
    [][(PassStep /\ file.kind \in {"missing", "malformed"}) =>
          /\ tasks' = tasks
          /\ pool' = pool
          /\ last_hashes' = last_hashes]_vars

\* C9: a target file that is missing, unreadable, malformed or empty, at
\* startup, at the check of its modification time or at its re-read, neither
\* ends the main coroutine nor stops a running monitor.
C9_SourceNeverEndsReconciler ==
    [][(BadSource(file) /\ pc \in {"init", "load", "check", "reload"}) =>
          /\ pc' \notin {"returned", "crashed"}
          /\ \A t \in 1..Len(pool) : Live(pool[t]) => Live(pool'[t])]_vars

\* C10: a URL removed by one pass and added again by a later pass starts with
\* an unset fingerprint, and the first successful fetch of its new monitor
\* records a baseline and sends no notification.
C10_ReaddedTargetIsFresh ==
    [][/\ PassStep =>
            \A u \in KeySet(tasks') \ KeySet(tasks) :
                (\E s \in 1..Len(pool) :
                     pool[s].url = u /\ pool[s].pc = "cancelled")
                => Get(last_hashes', u) = None
       /\ \A t \in 1..Len(pool) :
            (/\ CycleStep(t)
             /\ pool[t].url \in KeySet(tasks)
             /\ TaskGet(tasks, pool[t].url) = t
             /\ \E s \in 1..(t - 1) :
                    pool[s].url = pool[t].url /\ pool[s].pc = "cancelled"
             /\ pool[t].hist # "ok"
             /\ cycle'.current_hash \in Hashes)
            => /\ mail' = <<>>
               /\ out' = <<<<"first", pool[t].url>>>>]_vars

\* ==================================================== claims C11 .. C20

\* C11: a reconciliation pass spawns exactly one new task for every URL of
\* the newly read desired set that has no running task, records it in the
\* task map, and the URL's fingerprint is unset when the pass ends.
C11_AddedTargetSpawnedOnceUnset ==
    [][(PassStep /\ file.kind = "list") =>
          \A u \in UrlsOf(load_target_urls(file)) \ KeySet(tasks) :
              /\ u \in KeySet(tasks')
              /\ TaskGet(tasks', u) \in (Len(pool) + 1)..Len(pool')
              /\ pool'[TaskGet(tasks', u)].pc = "new"
              /\ Cardinality({t \in (Len(pool) + 1)..Len(pool') :
                                 pool'[t].url = u}) = 1
              /\ Get(last_hashes', u) = None]_vars

\* C12: a task the Reconciler has cancelled stays cancelled and runs no
\* further cycle (no fetch, no notification, no write of last_hashes), and
\* the fingerprint entry of a removed URL that the Reconciler deleted does
\* not reappear while the URL stays unmonitored.
C12_CancelledMonitorIsSilent ==
    [][/\ \A t \in 1..Len(pool) :
             pool[t].pc = "cancelled" =>
                 (pool'[t] = pool[t] /\ cycle'.task # t)
       /\ \A u \in URLs :
             (/\ \E t \in 1..Len(pool) :
                     pool[t].url = u /\ pool[t].pc = "cancelled"
              /\ u \notin KeySet(tasks)
              /\ u \notin KeySet(tasks')
              /\ u \notin DOMAIN last_hashes)
             => u \notin DOMAIN last_hashes']_vars

\* C13: a failed notification attempt does not stop the cycle: the new
\* fingerprint is stored in the same step and the monitor goes to sleep; and
\* a notification is only ever sent for a fingerprint that differs from the
\* stored one, so the fingerprint of a failed attempt is not notified again.
C13_FailedNotificationStillAdvances ==
    [][\A t \in 1..Len(pool) : CycleStep(t) =>
          LET u == pool[t].url
              h == cycle'.current_hash
          IN /\ (mail' # <<>> /\ ~mail'[1].delivered) =>
                    /\ out' = <<<<"changed", u>>, <<"mail_fail", u>>>>
                    /\ u \in DOMAIN last_hashes'
                    /\ last_hashes'[u] = h
                    /\ pool'[t].pc = "sleeping"
             /\ mail' # <<>> =>
                    /\ h \in Hashes
                    /\ Get(last_hashes, u) # h
                    /\ Get(last_hashes', u) = h]_vars

C13_Witness ==
    /\ cycle.task # 0
    /\ Len(mail) = 1
    /\ ~mail[1].delivered
    /\ out = <<<<"changed", pool[cycle.task].url>>,
               <<"mail_fail", pool[cycle.task].url>>>>
    /\ last_hashes[pool[cycle.task].url] = cycle.current_hash
    /\ pool[cycle.task].pc = "sleeping"

\* C14: after a pass that read a list in which a running URL carries a
\* selector other than the one its monitor was started with, the monitor
\* recorded for that URL is live and fetches with the new selector.
C14_SelectorChangeTakesEffect ==
    [][(PassStep /\ file.kind = "list") =>
          \A i \in 1..Len(file.data) :
              LET target == file.data[i]
              IN (/\ \A j \in 1..Len(file.data) :
                        file.data[j].url = target.url => j = i
                  /\ target.url \in KeySet(tasks)
                  /\ pool[TaskGet(tasks, target.url)].xpath # target.xpath)
                 => /\ target.url \in KeySet(tasks')
                    /\ Live(pool'[TaskGet(tasks', target.url)])
                    /\ pool'[TaskGet(tasks', target.url)].xpath = target.xpath]_vars

\* C15: a monitor never stops on its own.  A live task becomes cancelled
\* only in a step of the main coroutine: a pass that removes its URL, or the
\* end of the program.  After any outcome of a cycle the task sleeps, and a
\* live task always has a next step to take when the event loop is idle.
C15_MonitorNeverExits ==
    /\ [][\A t \in 1..Len(pool) :
             /\ (Live(pool[t]) /\ ~Live(pool'[t])) =>
                   /\ pc \in {"check", "reload"}
                   /\ \/ pc' = "crashed"
                      \/ /\ PassStep
                         /\ pool[t].url \in KeySet(tasks)
                         /\ TaskGet(tasks, pool[t].url) = t
                         /\ pool[t].url \notin UrlsOf(load_target_urls(file))
             /\ CycleStep(t) => (Live(pool'[t]) /\ pool'[t].pc = "sleeping")]_vars
    /\ [](\A t \in 1..Len(pool) :
             (pc = "sleeping" /\ Live(pool[t])) =>
                 \/ ENABLED BeginFetch(t)
                 \/ ENABLED (\E resp \in Responses, delivered \in BOOLEAN :
                                FetchDone(t, resp, delivered)))

\* a monitor that has completed a successful cycle is fetching again
C15_Witness ==
    \E t \in 1..Len(pool) :
        /\ pool[t].pc = "fetching"
        /\ pool[t].hist = "ok"
        /\ Get(last_hashes, pool[t].url) \in Hashes

\* C16: the key sets of tasks and last_hashes change only in steps of the
\* main coroutine (startup, a pass); a monitor cycle inserts and deletes no
\* entry, leaves tasks alone and changes no fingerprint and no task of
\* another URL.
C16_MapsHaveOneWriter ==
    [][/\ (DOMAIN last_hashes' # DOMAIN last_hashes
           \/ KeySet(tasks') # KeySet(tasks)) => pc \in {"load", "reload"}
       /\ \A t \in 1..Len(pool) : CycleStep(t) =>
             /\ DOMAIN last_hashes' = DOMAIN last_hashes
             /\ tasks' = tasks
             /\ \A v \in URLs \ {pool[t].url} :
                   Get(last_hashes', v) = Get(last_hashes, v)
             /\ \A s \in (1..Len(pool)) \ {t} : pool'[s] = pool[s]]_vars

\* C17: while a monitor is inside its fetch (line 73) or inside its
\* notification call (lines 82-86), the main coroutine, asleep in its watch
\* loop, can be resumed for its next check of the target file, and every
\* other monitor that waits to run can be resumed.
C17_LoopNeverHeldUp ==
    [](\A t \in 1..Len(pool) :
          (pc = "sleeping" /\ pool[t].pc \in {"fetching", "notifying"}) =>
              /\ ENABLED Loop(WakeMain)
              /\ \A s \in (1..Len(pool)) \ {t} :
                    pool[s].pc \in {"new", "sleeping"} =>
                        ENABLED Loop(BeginFetch(s)))

\* C20: from the notification call of a change cycle to the overwrite of the
\* fingerprint nothing else runs: in a state inside the call no step of the
\* main coroutine and of no monitor is enabled, and the only step out of it
\* is the return into the same cycle, which stores the fetched fingerprint
\* and leaves pc, tasks, every other task (none is cancelled or started) and
\* every other fingerprint as they were.
C20_NotifyThenStoreUninterrupted ==
    /\ [][\A t \in 1..Len(pool) : pool[t].pc = "notifying" =>
             /\ pool'[t].pc = "sleeping"
             /\ Get(last_hashes', pool[t].url) = cycle.current_hash
             /\ cycle.current_hash \in Hashes
             /\ DOMAIN last_hashes' = DOMAIN last_hashes
             /\ \A v \in URLs \ {pool[t].url} :
                   Get(last_hashes', v) = Get(last_hashes, v)
             /\ pc' = pc /\ tasks' = tasks /\ Len(pool') = Len(pool)
             /\ \A s \in (1..Len(pool)) \ {t} : pool'[s] = pool[s]]_vars
    /\ [](\A t \in 1..Len(pool) : pool[t].pc = "notifying" =>
             /\ ~ENABLED Loop(WakeMain)
             /\ ~ENABLED Loop(Check)
             /\ ~ENABLED Loop(Reconcile(CycleTasks))
             /\ \A s \in 1..Len(pool) :
                   /\ ~ENABLED Loop(BeginFetch(s))
                   /\ ~ENABLED (\E resp \in Responses :
                                   Loop(FetchReturn(s, resp))))

C20_Witness ==
    /\ pc = "sleeping"
    /\ cycle.task # 0
    /\ pool[cycle.task].pc = "sleeping"
    /\ Len(mail) = 1
    /\ mail[1].subject = pool[cycle.task].url
    /\ cycle.before = "ok"
    /\ Get(last_hashes, pool[cycle.task].url) = cycle.current_hash

\* C18: whenever the main coroutine sleeps between two checks and the marker
\* it holds equals the file's current one, and the file is a readable list of
\* targets, the URLs that have a live task are exactly the URLs the file
\* lists (and they are the keys of tasks); a write that lands between
\* getmtime and open() leaves the held marker behind the file's, so the state
\* is not one of these until a later pass has read the file again.
C18_TasksMatchSourceWhenInSync ==
    (/\ pc = "sleeping"
     /\ last_modification_time = mtime
     /\ file.kind = "list") =>
        /\ {u \in URLs : LiveTasks(u) # {}} = UrlsOf(file.data)
        /\ KeySet(tasks) = UrlsOf(file.data)

\* C19: if from some point on the file holds one readable, non-empty list of
\* well-formed targets, then, the main coroutine being scheduled fairly, from
\* some point on the URLs with a live task (and the keys of tasks) are
\* exactly the URLs of that list.
C19_EventuallyTasksMatchSource ==
    \A l \in TargetLists(PlainTargets, CycleTargets) \ {<<>>} :
        <>[](file.kind = "list" /\ file.data = l) =>
            <>[](/\ {u \in URLs : LiveTasks(u) # {}} = UrlsOf(l)
                 /\ KeySet(tasks) = UrlsOf(l))
====
